---- MODULE Spec2Model ----
(***************************************************************************)
(* A model of dashboard.py: the record store built by load_data, the       *)
(* filter_dataset helper, the Flask metric endpoints and the Streamlit     *)
(* dashboard script that run beside each other on the same data.           *)
(*                                                                         *)
(* A DataFrame is a record [cols, rows]: cols is the set of column names   *)
(* and rows the sequence of its rows, each a function from cols to cells.  *)
(* A cell is a sequence: <<>> is a missing value (NaN / NaT / None) and    *)
(* <<v>> holds the value v.  A date text (a CSV Timestamp cell, or a       *)
(* start_date / end_date parameter) is a sequence of integers: <<>> is the *)
(* empty text, <<d>> the text of day d alone and <<d, t>> that of tick t   *)
(* of day d; a tick outside the day is a text that is no date.             *)
(* A raised exception is a record [error, key].                            *)
(***************************************************************************)
EXTENDS Integers, Sequences, FiniteSets, TLC

VARIABLES
    file,    \* the CSV file at DATASET_PATH: whether it exists, and its content
    df,      \* the global DataFrame of the Flask process (dashboard.py:29-33)
    thr,     \* the Flask worker threads: the request each is serving
    dash,    \* the run of the Streamlit script
    call     \* a call of filter_dataset alone: its arguments and its result

\* ------------------------------------------------------------------ bounds

\* Ticks of one calendar day (the resolution of a Timestamp).
TicksPerDay == 2
\* Longest CSV file, in rows, that the filter specifications load.
MaxRows == 3
\* Most keys a request's query string carries.
MaxKeys == 2
\* Longest CSV file, in rows, among the files that lack a column.
MaxNarrowRows == 1

\* ------------------------------------------------------------------ values

NaN == <<>>

EmptyFrame == [cols |-> {}, rows |-> <<>>]

IsFrame(x) == "rows" \in DOMAIN x

KeyError(col) == [error |-> "KeyError", key |-> col]

ValueError(what) == [error |-> "ValueError", key |-> what]

\* DataFrame.empty: some axis has length 0.
IsEmpty(dataframe) == dataframe.cols = {} \/ dataframe.rows = <<>>

\* pd.to_datetime of a date text: the tick it names; NaT when the text is
\* empty or names no date (errors="coerce").
to_datetime(text) ==
    IF Len(text) = 1 THEN <<text[1] * TicksPerDay>>
    ELSE IF Len(text) = 2 /\ text[2] \in 0 .. (TicksPerDay - 1)
         THEN <<text[1] * TicksPerDay + text[2]>>
         ELSE NaN

\* Series.dt.date of a Timestamp cell.
dt_date(cell) == IF cell = NaN THEN NaN ELSE <<cell[1] \div TicksPerDay>>

\* ------------------------------------------------------------------ load_data

\* df["Profit"] = df["Revenue"] - df["Transaction_Amount"] when both columns
\* exist (NaN where either cell is), else the scalar 0 in every row.
ProfitOf(cols, row) ==
    IF "Revenue" \in cols /\ "Transaction_Amount" \in cols
    THEN IF row["Revenue"] = NaN \/ row["Transaction_Amount"] = NaN
         THEN NaN
         ELSE <<row["Revenue"][1] - row["Transaction_Amount"][1]>>
    ELSE <<0>>

LoadedRow(cols, row) ==
    LET ts == to_datetime(row["Timestamp"])
    IN  [c \in cols \cup {"Profit", "Date"} |->
            CASE c = "Timestamp" -> ts
              [] c = "Profit"    -> ProfitOf(cols, row)
              [] c = "Date"      -> dt_date(ts)
              [] c = "Job_Title" -> IF row[c] = NaN THEN <<"Unknown">> ELSE row[c]
              [] OTHER           -> row[c]]

\* DataFrame.dropna(subset=[col]) on a sequence of rows.
dropna(rows, col) ==
    LET Has(row) == row[col] # NaN
    IN  SelectSeq(rows, Has)

\* load_data on a CSV file [cols, rows] whose columns include Timestamp.
load_data(csv) ==
    [cols |-> csv.cols \cup {"Profit", "Date"},
     rows |-> dropna([i \in 1 .. Len(csv.rows) |-> LoadedRow(csv.cols, csv.rows[i])],
                     "Date")]

\* The module-level try/except: without the file, an empty DataFrame.
LoadGlobal(exists, csv) == IF exists THEN load_data(csv) ELSE EmptyFrame

\* ------------------------------------------------------------------ filter_dataset

DateKeys == {"start_date", "end_date"}

FilterKeys ==
    <<"start_date", "end_date", "country", "region", "city", "activity",
      "job_title", "sales_rep">>

\* The column each key of the query string is compared with.
ColumnOf(key) ==
    CASE key \in DateKeys   -> "Timestamp"
      [] key = "country"    -> "Country"
      [] key = "region"     -> "Region"
      [] key = "city"       -> "City"
      [] key = "activity"   -> "Request_Category"
      [] key = "job_title"  -> "Job_Title"
      [] key = "sales_rep"  -> "Sales_Rep"

KeyGiven(params, key) == key \in DOMAIN params

\* 'key' in params and params['key']: the key is given and its text is not empty.
Truthy(params, key) ==
    /\ key \in DOMAIN params
    /\ IF key \in DateKeys THEN params[key] # <<>> ELSE params[key] # ""

\* One entry of the boolean mask of a step. A comparison with NaN / NaT is False.
MaskStrictStart(key, row, v) ==
    CASE key = "start_date" ->
            row["Timestamp"] # NaN /\ row["Timestamp"][1] > to_datetime(v)[1]
      [] key = "end_date" ->
            row["Timestamp"] # NaN /\ row["Timestamp"][1] <= to_datetime(v)[1]
      [] OTHER -> row[ColumnOf(key)] = <<v>>

Mask(key, row, v) ==
    CASE key = "start_date" ->
            row["Timestamp"] # NaN /\ row["Timestamp"][1] >= to_datetime(v)[1]
      [] key = "end_date" ->
            row["Timestamp"] # NaN /\ row["Timestamp"][1] <= to_datetime(v)[1]
      [] OTHER -> row[ColumnOf(key)] = <<v>>

\* Whether the step of a key looks its column up: only the job_title step
\* first asks whether the column exists (dashboard.py:51).
StepApplies(dataframe, params, key) ==
    /\ Truthy(params, key)
    /\ key = "job_title" => "Job_Title" \in dataframe.cols

\* One "if ...: dataframe = dataframe[mask]" step; an exception of an earlier
\* step ends the function. dataframe[mask] keeps the rows whose mask entry is
\* True, in their order.
FilterStepDropFirst(dataframe, params, key) ==
    IF ~IsFrame(dataframe) \/ ~StepApplies(dataframe, params, key) THEN dataframe
    ELSE IF ColumnOf(key) \notin dataframe.cols THEN KeyError(ColumnOf(key))
    ELSE LET Test(row) == Mask(key, row, params[key])
             kept == SelectSeq(dataframe.rows, Test)
         IN  [dataframe EXCEPT !.rows = IF kept = <<>> THEN kept ELSE Tail(kept)]

FilterStep(dataframe, params, key) ==
    IF ~IsFrame(dataframe) \/ ~StepApplies(dataframe, params, key) THEN dataframe
    ELSE IF ColumnOf(key) \notin dataframe.cols THEN KeyError(ColumnOf(key))
    ELSE LET Test(row) == Mask(key, row, params[key])
         IN  [dataframe EXCEPT !.rows = SelectSeq(dataframe.rows, Test)]

RECURSIVE FilterSteps(_, _, _)
FilterSteps(dataframe, params, k) ==
    IF k > Len(FilterKeys) THEN dataframe
    ELSE FilterSteps(FilterStep(dataframe, params, FilterKeys[k]), params, k + 1)

filter_dataset_unguarded(dataframe, params) == FilterSteps(dataframe, params, 1)

filter_dataset(dataframe, params) ==
    IF IsEmpty(dataframe) THEN dataframe ELSE FilterSteps(dataframe, params, 1)

\* ------------------------------------------------------------------ pandas operations

\* The strings of the data in Python's string order (the order groupby sorts by).
Alphabet ==
    <<"Amber Lame", "Arm", "Bot", "C1", "C2", "R1", "R2", "Treach Mpedi", "X", "Y",
      "Z1", "Z2", "Z3", "Z4", "Z5", "Z6", "Z7", "Z8", "Z9">>

Rank(s) == CHOOSE i \in 1 .. Len(Alphabet) : Alphabet[i] = s

\* The place of a group key in the sort order: a calendar date or a string.
Ord(kind, v) == IF kind = "date" THEN v ELSE Rank(v)

\* dataframe[col] as a sequence of cells.
Column(rows, col) == [i \in 1 .. Len(rows) |-> rows[i][col]]

\* Series.sum(): missing values are skipped; 0 for no value.
RECURSIVE SumCells(_)
SumCells(cells) ==
    IF cells = <<>> THEN 0
    ELSE (IF Head(cells) = NaN THEN 0 ELSE Head(cells)[1]) + SumCells(Tail(cells))

\* Series.nunique(): the number of distinct values, missing ones not counted.
nunique(cells) ==
    Cardinality({cells[i][1] : i \in {j \in 1 .. Len(cells) : cells[j] # NaN}})

\* The distinct values of a column in the order they are first met.
RECURSIVE FirstSeen(_, _)
FirstSeen(cells, seen) ==
    IF cells = <<>> THEN <<>>
    ELSE IF Head(cells) = NaN \/ Head(cells)[1] \in seen
         THEN FirstSeen(Tail(cells), seen)
         ELSE <<Head(cells)[1]>> \o FirstSeen(Tail(cells), seen \cup {Head(cells)[1]})

\* A row [key, val] put into rows sorted by descending val, after its equals.
InsertDesc(sorted, r) ==
    LET n == Cardinality({j \in 1 .. Len(sorted) : sorted[j].val >= r.val})
    IN  SubSeq(sorted, 1, n) \o <<r>> \o SubSeq(sorted, n + 1, Len(sorted))

\* sort by descending val; rows of equal val keep their order.
RECURSIVE SortDesc(_)
SortDesc(rows) ==
    IF rows = <<>> THEN <<>>
    ELSE InsertDesc(SortDesc(SubSeq(rows, 1, Len(rows) - 1)), rows[Len(rows)])

\* Series.value_counts(): one row per distinct value (missing values
\* dropped), by descending count. pandas sorts the counts with its default
\* sort kind; the sort is taken here as keeping equal counts in the order the
\* values are first met.
value_counts(cells) ==
    LET seen == FirstSeen(cells, {})
    IN  SortDesc([j \in 1 .. Len(seen) |->
                    [key |-> seen[j],
                     val |-> Cardinality({i \in 1 .. Len(cells) : cells[i] = <<seen[j]>>})]])

\* groupby(by): a row belongs to a group when none of its key cells is missing
\* (dropna=True), and the groups come sorted by key (sort=True).
HasKey(row, by) == \A i \in 1 .. Len(by) : row[by[i]] # NaN

KeyOf(row, by) == [i \in 1 .. Len(by) |-> row[by[i]][1]]

GroupKeys(rows, by) ==
    {KeyOf(rows[i], by) : i \in {j \in 1 .. Len(rows) : HasKey(rows[j], by)}}

RECURSIVE KeyLess(_, _, _, _)
KeyLess(kind, a, b, i) ==
    IF i > Len(a) THEN FALSE
    ELSE IF Ord(kind, a[i]) < Ord(kind, b[i]) THEN TRUE
    ELSE IF Ord(kind, a[i]) > Ord(kind, b[i]) THEN FALSE
    ELSE KeyLess(kind, a, b, i + 1)

RECURSIVE SortedKeys(_, _)
SortedKeys(kind, keys) ==
    IF keys = {} THEN <<>>
    ELSE LET least == CHOOSE x \in keys : \A y \in keys \ {x} : KeyLess(kind, x, y, 1)
         IN  <<least>> \o SortedKeys(kind, keys \ {least})

GroupRows(rows, by, key) ==
    LET In(row) == HasKey(row, by) /\ KeyOf(row, by) = key
    IN  SelectSeq(rows, In)

\* groupby(by).size()
groupby_size(rows, by, kind) ==
    LET keys == SortedKeys(kind, GroupKeys(rows, by))
    IN  [j \in 1 .. Len(keys) |->
            [key |-> keys[j], val |-> Len(GroupRows(rows, by, keys[j]))]]

\* groupby(by)[col].sum()
groupby_sum(rows, by, col, kind) ==
    LET keys == SortedKeys(kind, GroupKeys(rows, by))
    IN  [j \in 1 .. Len(keys) |->
            [key |-> keys[j],
             val |-> SumCells(Column(GroupRows(rows, by, keys[j]), col))]]

\* groupby(by)[col].count(): the values of col in each group, missing ones
\* not counted.
groupby_count(rows, by, col, kind) ==
    LET keys == SortedKeys(kind, GroupKeys(rows, by))
        Has(c) == c # NaN
    IN  [j \in 1 .. Len(keys) |->
            [key |-> keys[j],
             val |-> Len(SelectSeq(Column(GroupRows(rows, by, keys[j]), col), Has))]]

\* Series.nlargest(n), keep='first': the n largest rows by descending val,
\* rows of equal val in the order they have in the Series.
nlargest(rows, n) ==
    LET sorted == SortDesc(rows)
    IN  SubSeq(sorted, 1, IF Len(sorted) < n THEN Len(sorted) ELSE n)

\* Series.idxmax(): the key of the first row with the largest val; ValueError
\* on a Series without rows.
idxmax(rows) ==
    IF rows = <<>> THEN ValueError("idxmax")
    ELSE rows[CHOOSE i \in 1 .. Len(rows) :
                 /\ \A j \in 1 .. Len(rows) : rows[j].val <= rows[i].val
                 /\ \A j \in 1 .. (i - 1) : rows[j].val < rows[i].val].key

\* dataframe[col] = values: the column is added or replaced, in place.
WithColumn(dataframe, col, values) ==
    [cols |-> dataframe.cols \cup {col},
     rows |-> [i \in 1 .. Len(dataframe.rows) |->
                 [c \in dataframe.cols \cup {col} |->
                     IF c = col THEN values[i] ELSE dataframe.rows[i][c]]]]

\* A DataFrame object: its value and whose data it is ("own": an object of
\* the query alone; otherwise the name of the shared object it is).
Object(dataframe, root) == [frame |-> dataframe, root |-> root]

\* DataFrame.copy(): a new object with the same value.
df_copy(obj) == Object(obj.frame, "own")

\* dataframe[mask]: a new object holding the rows kept.
BoolIndexView(obj, kept) ==
    Object([obj.frame EXCEPT !.rows = kept],
           IF kept = obj.frame.rows THEN obj.root ELSE "own")

BoolIndex(obj, kept) == Object([obj.frame EXCEPT !.rows = kept], "own")

\* ------------------------------------------------------------------ Flask endpoints

\* filter_dataset on objects: the object it is given when no step runs,
\* a new object when a step indexes, or the exception raised.
NoStep(dataframe, params) ==
    IsEmpty(dataframe)
    \/ \A k \in 1 .. Len(FilterKeys) : ~StepApplies(dataframe, params, FilterKeys[k])

FilterObject(obj, params) ==
    LET out == filter_dataset(obj.frame, params)
    IN  IF NoStep(obj.frame, params) THEN obj
        ELSE IF IsFrame(out) THEN Object(out, "own") ELSE out

IsObject(x) == "frame" \in DOMAIN x

\* Responses: jsonify of a dict or of a list of rows, or the 500 of an
\* exception that left the view function. Amounts are decimals, so the sums
\* are values jsonify can write.
Ok(body) == [status |-> 200, list |-> FALSE, body |-> body]

OkRows(rows) == [status |-> 200, list |-> TRUE, body |-> rows]

ServerError(exc) == [status |-> 500, list |-> FALSE, body |-> exc]

NoData(text, params) ==
    Ok([message |-> text, filters |-> params, data_count |-> 0])

\* A quotient of two integers, kept exact.
Frac(n, d) == [num |-> n, den |-> d]

\* filtered_df['Date'] = filtered_df['Timestamp'].dt.date
DateAssigned(dataframe) ==
    WithColumn(dataframe, "Date",
               [i \in 1 .. Len(dataframe.rows) |-> dt_date(dataframe.rows[i]["Timestamp"])])

\* The columns an endpoint assigns on filtered_df before it answers.
Assigned(endpoint, dataframe) ==
    IF /\ "Timestamp" \in dataframe.cols
       /\ \/ endpoint = "trends"
          \/ endpoint = "generate_insights" /\ ~IsEmpty(dataframe)
    THEN DateAssigned(dataframe)
    ELSE dataframe

\* series.sum() over every value of the column.
PlainSum(cells) == SumCells(cells)

\* series[series > 0].sum() and series[series < 0].sum()
PositiveSum(cells) ==
    LET Pos(c) == c # NaN /\ c[1] > 0
    IN  SumCells(SelectSeq(cells, Pos))

NegativeSum(cells) ==
    LET Neg(c) == c # NaN /\ c[1] < 0
    IN  SumCells(SelectSeq(cells, Neg))

\* value_counts().reset_index() with its two columns renamed.
CountRows(cells, name, count) ==
    LET vc == value_counts(cells)
    IN  [j \in 1 .. Len(vc) |-> (name :> vc[j].key) @@ (count :> vc[j].val)]

total_entries(dataframe, params) ==
    Ok([total_entries |-> Len(dataframe.rows)])

unique_visitors(dataframe, params) ==
    Ok([unique_visitors |->
          IF "IP_Address" \in dataframe.cols
          THEN nunique(Column(dataframe.rows, "IP_Address")) ELSE 0])

trends(dataframe, params) ==
    IF "Timestamp" \notin dataframe.cols THEN ServerError(KeyError("Timestamp"))
    ELSE LET daily == groupby_size(DateAssigned(dataframe).rows, <<"Date">>, "date")
         IN  OkRows([j \in 1 .. Len(daily) |->
                       [Date |-> daily[j].key[1], Interactions |-> daily[j].val]])

\* Without the column sr_df is pd.DataFrame(), and giving a DataFrame of no
\* columns two column names raises ValueError.
service_requests(dataframe, params) ==
    IF "Service_Type" \notin dataframe.cols THEN ServerError(ValueError("columns"))
    ELSE OkRows(CountRows(Column(dataframe.rows, "Service_Type"), "Service_Type", "Count"))

sales_metrics(dataframe, params) ==
    IF IsEmpty(dataframe)
    THEN NoData("No sales metrics available for the selected filters", params)
    ELSE Ok([total_sales |->
                IF "Transaction_Amount" \in dataframe.cols
                THEN PositiveSum(Column(dataframe.rows, "Transaction_Amount")) ELSE 0,
             total_profit |->
                IF "Profit" \in dataframe.cols
                THEN PositiveSum(Column(dataframe.rows, "Profit")) ELSE 0,
             total_loss |->
                IF "Profit" \in dataframe.cols
                THEN NegativeSum(Column(dataframe.rows, "Profit")) ELSE 0])

\* top_liked.sort_values(by='Likes') on pd.DataFrame() raises KeyError.
top_products(dataframe, params) ==
    IF IsEmpty(dataframe)
    THEN NoData("No product data available for the selected filters", params)
    ELSE IF "Product_Name" \notin dataframe.cols THEN ServerError(ValueError("columns"))
    ELSE IF "Likes" \notin dataframe.cols THEN ServerError(KeyError("Likes"))
    ELSE LET liked == SortDesc(groupby_sum(dataframe.rows, <<"Product_Name">>, "Likes", "str"))
         IN  Ok([top_sold_products |->
                    CountRows(Column(dataframe.rows, "Product_Name"),
                              "Product_Name", "Sales_Count"),
                 top_liked_products |->
                    [j \in 1 .. Len(liked) |->
                        [Product_Name |-> liked[j].key[1], Likes |-> liked[j].val]]])

LocationCols == <<"Country", "Region", "City", "Product_Name">>

customer_locations(dataframe, params) ==
    IF IsEmpty(dataframe)
    THEN NoData("No customer location data available for the selected filters", params)
    ELSE IF \E i \in 1 .. Len(LocationCols) : LocationCols[i] \notin dataframe.cols
    THEN OkRows(<<>>)
    ELSE LET loc == groupby_size(dataframe.rows, LocationCols, "str")
         IN  OkRows([j \in 1 .. Len(loc) |->
                       [Country |-> loc[j].key[1], Region |-> loc[j].key[2],
                        City |-> loc[j].key[3], Product_Name |-> loc[j].key[4],
                        Customer_Count |-> loc[j].val]])

page_access(dataframe, params) ==
    IF IsEmpty(dataframe)
    THEN NoData("No page access data available for the selected filters", params)
    ELSE IF "Page_Accessed" \notin dataframe.cols THEN ServerError(ValueError("columns"))
    ELSE OkRows(CountRows(Column(dataframe.rows, "Page_Accessed"),
                          "Page_Accessed", "Access_Count"))

job_title_counts(dataframe, params) ==
    IF "Job_Title" \notin dataframe.cols \/ IsEmpty(dataframe)
    THEN Ok([message |-> "'Job_Title' column not found or no data after filtering",
             filters |-> params])
    ELSE OkRows(CountRows(Column(dataframe.rows, "Job_Title"), "Job_Title", "Count"))

\* (converted / len(filtered_df)) * 100 when the column exists and there is a
\* record, else 0 (dashboard.py:151).
conversion_rate(dataframe) ==
    LET IsConverted(row) == row["Conversion_Status"] = <<"Converted">>
    IN  IF "Conversion_Status" \in dataframe.cols /\ Len(dataframe.rows) > 0
        THEN Frac(Len(SelectSeq(dataframe.rows, IsConverted)) * 100, Len(dataframe.rows))
        ELSE Frac(0, 1)

\* insights['message']: "strong" when conversion_rate > 50 (dashboard.py:154).
InsightMessageAtLeast(rate) ==
    IF rate.num >= 50 * rate.den
    THEN "Sales performance is strong"
    ELSE "Sales performance needs improvement"

InsightMessage(rate) ==
    IF rate.num > 50 * rate.den
    THEN "Sales performance is strong"
    ELSE "Sales performance needs improvement"

\* value_counts().idxmax() raises ValueError when no value was counted.
generate_insights(dataframe, params) ==
    IF IsEmpty(dataframe)
    THEN NoData("No data available for the selected filters", params)
    ELSE IF "Timestamp" \notin dataframe.cols THEN ServerError(KeyError("Timestamp"))
    ELSE LET daily == groupby_size(DateAssigned(dataframe).rows, <<"Date">>, "date")
             services == IF "Service_Type" \in dataframe.cols
                         THEN value_counts(Column(dataframe.rows, "Service_Type"))
                         ELSE <<>>
         IN  IF "Service_Type" \in dataframe.cols /\ services = <<>>
             THEN ServerError(ValueError("idxmax"))
             ELSE Ok([avg_daily_interactions |->
                         IF daily # <<>>
                         THEN Frac(SumCells([j \in 1 .. Len(daily) |-> <<daily[j].val>>]),
                                   Len(daily))
                         ELSE Frac(0, 1),
                      top_service_request |->
                         IF "Service_Type" \in dataframe.cols THEN services[1].key ELSE "N/A",
                      total_sales |->
                         IF "Transaction_Amount" \in dataframe.cols
                         THEN PositiveSum(Column(dataframe.rows, "Transaction_Amount"))
                         ELSE 0,
                      conversion_rate |-> conversion_rate(dataframe),
                      message |-> InsightMessage(conversion_rate(dataframe))])

sales_by_rep(dataframe, params) ==
    IF IsEmpty(dataframe) THEN NoData("No data for selected filters", params)
    ELSE IF "Sales_Rep" \notin dataframe.cols \/ "Transaction_Amount" \notin dataframe.cols
    THEN ServerError(ValueError("columns"))
    ELSE LET sales == groupby_sum(dataframe.rows, <<"Sales_Rep">>, "Transaction_Amount", "str")
         IN  OkRows([j \in 1 .. Len(sales) |->
                       [Sales_Rep |-> sales[j].key[1], Total_Sales |-> sales[j].val]])

\* The endpoints that take the query string as filters.
Endpoints ==
    {"trends", "service_requests", "total_entries", "unique_visitors",
     "sales_metrics", "top_products", "customer_locations", "page_access",
     "job_title_counts", "generate_insights", "sales_by_rep"}

\* The view function of an endpoint, from filtered_df on; an exception of
\* filter_dataset leaves the view function.
Respond(endpoint, work, params) ==
    IF ~IsObject(work) THEN ServerError(work)
    ELSE CASE endpoint = "total_entries"      -> total_entries(work.frame, params)
           [] endpoint = "unique_visitors"    -> unique_visitors(work.frame, params)
           [] endpoint = "trends"             -> trends(work.frame, params)
           [] endpoint = "service_requests"   -> service_requests(work.frame, params)
           [] endpoint = "sales_metrics"      -> sales_metrics(work.frame, params)
           [] endpoint = "top_products"       -> top_products(work.frame, params)
           [] endpoint = "customer_locations" -> customer_locations(work.frame, params)
           [] endpoint = "page_access"        -> page_access(work.frame, params)
           [] endpoint = "job_title_counts"   -> job_title_counts(work.frame, params)
           [] endpoint = "generate_insights"  -> generate_insights(work.frame, params)
           [] endpoint = "sales_by_rep"       -> sales_by_rep(work.frame, params)

\* ------------------------------------------------------------------ inputs

\* The columns of the CSV files that the filter specification loads.
FilterCsvCols ==
    {"Timestamp", "Country", "Region", "City", "Request_Category", "Job_Title",
     "Sales_Rep"}

\* CSV rows: two of day 0 (tick 0 and tick 1), one of day 1 with no country,
\* job title or representative, and one whose Timestamp text is no date.
FilterCsvRows ==
    { [Timestamp |-> <<0, 0>>, Country |-> <<"X">>, Region |-> <<"R1">>,
       City |-> <<"C1">>, Request_Category |-> <<"Demo">>,
       Job_Title |-> <<"Engineer">>, Sales_Rep |-> <<"Amber Lame">>],
      [Timestamp |-> <<0, 1>>, Country |-> <<"Y">>, Region |-> <<"R1">>,
       City |-> <<"C2">>, Request_Category |-> <<"Demo">>,
       Job_Title |-> <<"Engineer">>, Sales_Rep |-> <<"Treach Mpedi">>],
      [Timestamp |-> <<1, 0>>, Country |-> NaN, Region |-> <<"R2">>,
       City |-> <<"C2">>, Request_Category |-> <<"Job">>,
       Job_Title |-> NaN, Sales_Rep |-> NaN],
      [Timestamp |-> <<1, TicksPerDay>>, Country |-> <<"X">>, Region |-> <<"R1">>,
       City |-> <<"C1">>, Request_Category |-> <<"Demo">>,
       Job_Title |-> <<"Engineer">>, Sales_Rep |-> <<"Amber Lame">>] }

\* The columns a CSV file may lack, one at a time.
FilterDrops ==
    {{}} \cup {{c} : c \in {"Country", "Region", "City", "Request_Category",
                            "Job_Title", "Sales_Rep"}}

RestrictRow(row, cols) == [c \in cols |-> row[c]]

SeqsUpTo(S, n) == UNION {[1 .. m -> S] : m \in 0 .. n}

FilterCsvFiles ==
    { [cols |-> FilterCsvCols \ drop,
       rows |-> [i \in 1 .. Len(rows) |-> RestrictRow(rows[i], FilterCsvCols \ drop)]] :
        drop \in FilterDrops, rows \in SeqsUpTo(FilterCsvRows, MaxRows) }

\* The texts a request gives for a date key, and for each other key.
DateTexts == {<<>>, <<0, 1>>, <<1>>}

CatKeys == {"country", "region", "city", "activity", "job_title", "sales_rep"}

CatText(key) ==
    CASE key = "country"   -> "X"
      [] key = "region"    -> "R1"
      [] key = "city"      -> "C2"
      [] key = "activity"  -> "Demo"
      [] key = "job_title" -> "Engineer"
      [] key = "sales_rep" -> "Amber Lame"

\* request.args.to_dict(): a function from the keys given to their texts.
ParamsOver(D, C) ==
    { d @@ [k \in C |-> IF k \in E THEN "" ELSE CatText(k)] :
        d \in [D -> DateTexts], E \in SUBSET C }

FilterSpecs ==
    UNION { ParamsOver(K \cap DateKeys, K \cap CatKeys) :
              K \in {K \in SUBSET (DateKeys \cup CatKeys) : Cardinality(K) <= MaxKeys} }

\* The columns of the CSV files that the endpoints and the dashboard read.
ApiCsvCols ==
    {"Timestamp", "Country", "Region", "City", "Product_Name", "Request_Category",
     "Job_Title", "Sales_Rep", "Transaction_Amount", "Revenue", "Service_Type",
     "Likes", "Page_Accessed", "IP_Address", "Conversion_Status", "Sales_Target",
     "Session_Duration"}

\* CSV rows: a sale, a refund with no representative and few other fields, a
\* second sale, a sale at a loss, and a row with no transaction amount.
ApiCsvRows ==
    { [Timestamp |-> <<0, 0>>, Country |-> <<"X">>, Region |-> <<"R1">>,
       City |-> <<"C1">>, Product_Name |-> <<"Bot">>, Request_Category |-> <<"Demo">>,
       Job_Title |-> <<"Engineer">>, Sales_Rep |-> <<"Amber Lame">>,
       Transaction_Amount |-> <<100>>, Revenue |-> <<150>>,
       Service_Type |-> <<"Demo">>, Likes |-> <<2>>, Page_Accessed |-> <<"/home">>,
       IP_Address |-> <<"ip1">>, Conversion_Status |-> <<"Converted">>,
       Sales_Target |-> <<200>>, Session_Duration |-> << <<1, 0>> >>],
      [Timestamp |-> <<0, 1>>, Country |-> <<"Y">>, Region |-> <<"R1">>,
       City |-> <<"C1">>, Product_Name |-> <<"Arm">>, Request_Category |-> <<"Job">>,
       Job_Title |-> NaN, Sales_Rep |-> NaN,
       Transaction_Amount |-> <<-20>>, Revenue |-> <<-10>>,
       Service_Type |-> NaN, Likes |-> NaN, Page_Accessed |-> NaN,
       IP_Address |-> NaN, Conversion_Status |-> <<"Pending">>,
       Sales_Target |-> NaN, Session_Duration |-> NaN],
      [Timestamp |-> <<1, 0>>, Country |-> <<"X">>, Region |-> <<"R2">>,
       City |-> <<"C2">>, Product_Name |-> <<"Arm">>, Request_Category |-> <<"Demo">>,
       Job_Title |-> <<"Engineer">>, Sales_Rep |-> <<"Treach Mpedi">>,
       Transaction_Amount |-> <<50>>, Revenue |-> <<70>>,
       Service_Type |-> <<"Support">>, Likes |-> <<2>>, Page_Accessed |-> <<"/jobs">>,
       IP_Address |-> <<"ip2">>, Conversion_Status |-> <<"Converted">>,
       Sales_Target |-> <<100>>, Session_Duration |-> << <<1, 1>> >>],
      [Timestamp |-> <<1, 1>>, Country |-> <<"Y">>, Region |-> <<"R2">>,
       City |-> <<"C2">>, Product_Name |-> <<"Bot">>, Request_Category |-> <<"Job">>,
       Job_Title |-> <<"Analyst">>, Sales_Rep |-> <<"Amber Lame">>,
       Transaction_Amount |-> <<70>>, Revenue |-> <<50>>,
       Service_Type |-> <<"Support">>, Likes |-> <<1>>, Page_Accessed |-> <<"/home">>,
       IP_Address |-> <<"ip1">>, Conversion_Status |-> <<"Pending">>,
       Sales_Target |-> <<200>>, Session_Duration |-> << <<1, TicksPerDay>> >>],
      [Timestamp |-> <<0, 0>>, Country |-> NaN, Region |-> NaN,
       City |-> NaN, Product_Name |-> NaN, Request_Category |-> NaN,
       Job_Title |-> <<"Analyst">>, Sales_Rep |-> <<"Amber Lame">>,
       Transaction_Amount |-> NaN, Revenue |-> <<30>>,
       Service_Type |-> <<"Demo">>, Likes |-> <<1>>, Page_Accessed |-> <<"/jobs">>,
       IP_Address |-> <<"ip2">>, Conversion_Status |-> NaN,
       Sales_Target |-> <<0>>, Session_Duration |-> NaN] }

\* The columns a CSV file may lack, one at a time.
ApiDrops ==
    {{c} : c \in {"Service_Type", "Product_Name", "Likes", "Page_Accessed",
                  "Sales_Rep", "Transaction_Amount", "IP_Address",
                  "Conversion_Status", "Country", "Revenue", "Job_Title"}}

CsvFile(cols, rows) ==
    [cols |-> cols, rows |-> [i \in 1 .. Len(rows) |-> RestrictRow(rows[i], cols)]]

\* The files with every column, and the shorter ones that lack a column.
ApiCsvFiles ==
    {CsvFile(ApiCsvCols, rows) : rows \in SeqsUpTo(ApiCsvRows, MaxRows)}
    \cup {CsvFile(ApiCsvCols \ drop, rows) :
            drop \in ApiDrops, rows \in SeqsUpTo(ApiCsvRows, MaxNarrowRows)}

NoParams == [k \in {} |-> ""]

\* The query strings sent to the endpoints.
ApiSpecs ==
    {NoParams, [country |-> "X"], [country |-> "Nowhere"], [sales_rep |-> "Amber Lame"]}

\* ------------------------------------------------------------------ the Flask threads

Threads == {"t1", "t2"}

IdleThread == [pc |-> "idle"]

\* params = request.args.to_dict(); filtered_df = filter_dataset(df.copy(), params)
Receive(t, endpoint, params) ==
    /\ thr[t].pc = "idle"
    /\ thr' = [thr EXCEPT ![t] =
                 [pc |-> "filtered", endpoint |-> endpoint, params |-> params,
                  work |-> FilterObject(df_copy(Object(df, "df")), params)]]
    /\ UNCHANGED <<file, df, dash, call>>

\* The rest of the view function: the columns it assigns on filtered_df (on
\* the global DataFrame too, were filtered_df that object), then its answer.
Handle(t) ==
    /\ thr[t].pc = "filtered"
    /\ LET req == thr[t]
           assigned == IF IsObject(req.work)
                       THEN Object(Assigned(req.endpoint, req.work.frame), req.work.root)
                       ELSE req.work
       IN  /\ thr' = [thr EXCEPT ![t] =
                        [pc |-> "done", endpoint |-> req.endpoint, params |-> req.params,
                         work |-> assigned,
                         resp |-> Respond(req.endpoint, req.work, req.params)]]
           /\ df' = IF IsObject(assigned) /\ assigned.root = "df" THEN assigned.frame ELSE df
    /\ UNCHANGED <<file, dash, call>>

\* The response is sent and the thread takes the next request.
Send(t) ==
    /\ thr[t].pc = "done"
    /\ thr' = [thr EXCEPT ![t] = IdleThread]
    /\ UNCHANGED <<file, df, dash, call>>

\* ------------------------------------------------------------------ the Streamlit script

\* The roster served by /api/team_members.
TeamMembers ==
    {"Leatile Modirapula", "Treach Mpedi", "Lesly Mochabeng", "Enough Bogadi",
     "Amber Lame", "Tumelo Sadie"}

\* The choices of the "Select View" box.
ViewOptions == {"SALES TEAM", "Team Member"} \cup TeamMembers

\* The days the date inputs can be set to.
DashDays == {0, 1}

FailedDash(exc) == [pc |-> "failed", error |-> exc]

\* The sidebar and "Apply filters": df_streamlit is the script's copy of the
\* cached load_data(); the rows whose Date lies in [start_date, end_date],
\* then those of the selected countries.
DashFiltered(store, start_date, end_date, selected_country) ==
    LET InRange(row) ==
            row["Date"] # NaN /\ row["Date"][1] >= start_date /\ row["Date"][1] <= end_date
        Selected(row) == row["Country"] # NaN /\ row["Country"][1] \in selected_country
        dated == BoolIndex(store, SelectSeq(store.frame.rows, InRange))
    IN  IF selected_country = {} THEN dated
        ELSE BoolIndex(dated, SelectSeq(dated.frame.rows, Selected))

\* The countries the multiselect offers.
CountryOptions(dataframe) ==
    IF IsEmpty(dataframe) THEN {}
    ELSE {dataframe.rows[i]["Country"][1] :
            i \in {j \in 1 .. Len(dataframe.rows) : dataframe.rows[j]["Country"] # NaN}}

DashStart(view_option, start_date, end_date, selected_country) ==
    /\ dash.pc = "idle"
    /\ IF ~file.exists
       THEN dash' = FailedDash([error |-> "FileNotFoundError", key |-> "DATASET_PATH"])
       ELSE LET store == Object(load_data(file.csv), "df_streamlit")
            IN  IF ~IsEmpty(store.frame) /\ "Country" \notin store.frame.cols
                THEN dash' = FailedDash(KeyError("Country"))
                ELSE /\ selected_country \subseteq CountryOptions(store.frame)
                     /\ dash' = [pc |-> "filtered", view |-> view_option, store |-> store,
                                 filtered |-> DashFiltered(store, start_date, end_date,
                                                           selected_country)]
    /\ UNCHANGED <<file, df, thr, call>>

\* The representatives the "Select Sales Rep" box offers (a missing value is
\* one of them); no choice on an empty subset.
MemberOptions(dataframe) ==
    IF IsEmpty(dataframe) THEN {NaN}
    ELSE {dataframe.rows[i]["Sales_Rep"] : i \in 1 .. Len(dataframe.rows)}

\* The metrics of the Team Member view (dashboard.py:292-296).
MemberMetrics(member_data) ==
    LET total_sales ==
            IF "Transaction_Amount" \in member_data.cols
            THEN SumCells(Column(member_data.rows, "Transaction_Amount")) ELSE 0
        total_revenue ==
            IF "Revenue" \in member_data.cols
            THEN SumCells(Column(member_data.rows, "Revenue")) ELSE 0
        sales_target ==
            IF /\ "Sales_Target" \in member_data.cols
               /\ \E i \in 1 .. Len(member_data.rows) : member_data.rows[i]["Sales_Target"] # NaN
            THEN member_data.rows[1]["Sales_Target"]
            ELSE <<0>>
    IN  [total_sales |-> total_sales, total_revenue |-> total_revenue,
         sales_target |-> sales_target,
         achievement_pct |->
            IF sales_target = NaN THEN NaN
            ELSE IF sales_target[1] = 0 THEN <<Frac(0, 1)>>
            ELSE <<Frac(total_revenue * 100, sales_target[1])>>]

\* pd.to_datetime of a column of dates: each date becomes its midnight.
DateAsDatetime(cell) == IF cell = NaN THEN NaN ELSE <<cell[1] * TicksPerDay>>

\* pd.to_datetime(..., errors="coerce") of a column of texts.
TextAsDatetime(cell) == IF cell = NaN THEN NaN ELSE to_datetime(cell[1])

\* The columns the charts of the Team Member view assign on member_data
\* (dashboard.py:321, 329, 330), before member_data is bound to a new object.
\* The Timestamp column is assigned its own values.
MemberAssigned(member_data) ==
    LET dated ==
            IF "Date" \in member_data.cols
            THEN WithColumn(member_data, "Date",
                            [i \in 1 .. Len(member_data.rows) |->
                                DateAsDatetime(member_data.rows[i]["Date"])])
            ELSE member_data
    IN  IF "Date" \in member_data.cols /\ "Revenue" \notin member_data.cols
        THEN dated
        ELSE IF {"Timestamp", "Session_Duration"} \subseteq member_data.cols
        THEN WithColumn(dated, "Session_Duration",
                        [i \in 1 .. Len(dated.rows) |->
                            TextAsDatetime(dated.rows[i]["Session_Duration"])])
        ELSE dated

\* The choices of the section radio of the SALES TEAM view; the Team Member
\* view shows no radio.
Sections ==
    {"Overview", "Key Statistics", "Jobs Analysis", "Event Analytics",
     "Marketing Effectiveness"}

NoSection == "none"

IsException(x) == "error" \in DOMAIN x

\* conversion_count / total_entries, the factor 100 left out.
overview_conversion_fraction(filtered_df) ==
    LET IsConverted(row) == row["Conversion_Status"] = <<"Converted">>
        conversion_count ==
            IF "Conversion_Status" \in filtered_df.cols
            THEN Len(SelectSeq(filtered_df.rows, IsConverted)) ELSE 0
        entries == Len(filtered_df.rows)
    IN  IF entries > 0 THEN Frac(conversion_count, entries)
        ELSE Frac(0, 1)

\* conversion_count / total_entries * 100 when there is a record, else 0
\* (dashboard.py:346-348).
overview_conversion_rate(filtered_df) ==
    LET IsConverted(row) == row["Conversion_Status"] = <<"Converted">>
        conversion_count ==
            IF "Conversion_Status" \in filtered_df.cols
            THEN Len(SelectSeq(filtered_df.rows, IsConverted)) ELSE 0
        entries == Len(filtered_df.rows)
    IN  IF entries > 0 THEN Frac(conversion_count * 100, entries)
        ELSE Frac(0, 1)

\* groupby(by)[col].sum().idxmax() if the guarded columns exist and there is
\* a record, else "N/A" (dashboard.py:349, 350, 353): the name shown, or the
\* exception raised.
TopGroup(filtered_df, by, col, guard) ==
    IF ~(guard \subseteq filtered_df.cols) \/ IsEmpty(filtered_df) THEN [name |-> "N/A"]
    ELSE IF col \notin filtered_df.cols THEN KeyError(col)
    ELSE LET sums == groupby_sum(filtered_df.rows, <<by>>, col, "str")
         IN  IF sums = <<>> THEN idxmax(sums) ELSE [name |-> idxmax(sums)[1]]

\* The KPIs of the Overview section that are counted and grouped
\* (dashboard.py:344-353); the first exception ends the run.
Overview(filtered_df) ==
    LET top_product == TopGroup(filtered_df, "Product_Name", "Revenue", {"Product_Name"})
        top_country == TopGroup(filtered_df, "Country", "Revenue", {"Country"})
        top_rep == TopGroup(filtered_df, "Sales_Rep", "Transaction_Amount",
                            {"Sales_Rep", "Transaction_Amount"})
    IN  IF IsException(top_product) THEN top_product
        ELSE IF IsException(top_country) THEN top_country
        ELSE IF IsException(top_rep) THEN top_rep
        ELSE [section |-> "Overview",
              total_revenue |->
                 IF "Revenue" \in filtered_df.cols
                 THEN SumCells(Column(filtered_df.rows, "Revenue")) ELSE 0,
              entries |-> Len(filtered_df.rows),
              conversion_rate |-> overview_conversion_rate(filtered_df),
              top_product |-> top_product.name, top_country |-> top_country.name,
              top_rep |-> top_rep.name]

\* value_counts().nlargest(n).reset_index() of a column, if it exists
\* (dashboard.py:430, 464).
TopCounts(filtered_df, col, n) ==
    IF col \in filtered_df.cols
    THEN nlargest(value_counts(Column(filtered_df.rows, col)), n)
    ELSE <<>>

\* The number of the top job titles and events, and of the top countries.
TopTitles == 5

TopCountries == 10

\* The rankings of the Jobs Analysis section (dashboard.py:430, 445).
JobsAnalysis(filtered_df) ==
    [section |-> "Jobs Analysis",
     job_counts |-> TopCounts(filtered_df, "Job_Title", TopTitles),
     country_jobs |->
        IF "Country" \in filtered_df.cols /\ "Job_Title" \in filtered_df.cols
        THEN LET top == nlargest(groupby_count(filtered_df.rows, <<"Country">>,
                                               "Job_Title", "str"), TopCountries)
             IN  [j \in 1 .. Len(top) |-> [key |-> top[j].key[1], val |-> top[j].val]]
        ELSE <<>>]

\* The ranking of the Event Analytics section (dashboard.py:464).
EventAnalytics(filtered_df) ==
    [section |-> "Event Analytics",
     event_counts |-> TopCounts(filtered_df, "Request_Category", TopTitles)]

\* The Marketing Effectiveness section: the categories counted, and revenue
\* grouped by date (dashboard.py:480, 487).
Marketing(filtered_df) ==
    IF "Date" \in filtered_df.cols /\ "Revenue" \notin filtered_df.cols
    THEN KeyError("Revenue")
    ELSE [section |-> "Marketing Effectiveness",
          category_counts |->
             IF "Request_Category" \in filtered_df.cols
             THEN value_counts(Column(filtered_df.rows, "Request_Category"))
             ELSE <<>>]

\* What a section of the SALES TEAM view computes from filtered_df, or the
\* exception that ends the run. Key Statistics shows means and deviations.
SectionView(section, filtered_df) ==
    CASE section = "Overview"                -> Overview(filtered_df)
      [] section = "Key Statistics"          -> [section |-> "Key Statistics"]
      [] section = "Jobs Analysis"           -> JobsAnalysis(filtered_df)
      [] section = "Event Analytics"         -> EventAnalytics(filtered_df)
      [] section = "Marketing Effectiveness" -> Marketing(filtered_df)

\* What a run that came to its end, or to an exception, leaves.
Rendered(store, member_data, metrics) ==
    [pc |-> "rendered", view |-> dash.view, store |-> store,
     filtered |-> dash.filtered, member |-> member_data, metrics |-> metrics]

\* The rest of the script. In the Team Member view member_data is the subset
\* of one representative; its metrics are shown and its chart columns
\* assigned (on df_streamlit too, were member_data that object). The SALES
\* TEAM view shows one section computed from filtered_df and assigns nothing.
DashRender(selected_member, section) ==
    /\ dash.pc = "filtered"
    /\ IF dash.view = "SALES TEAM"
       THEN /\ selected_member = NaN
            /\ section \in Sections
            /\ LET shown == SectionView(section, dash.filtered.frame)
               IN  dash' = IF IsException(shown)
                           THEN [pc |-> "failed", error |-> shown, store |-> dash.store]
                           ELSE Rendered(dash.store, dash.filtered, <<shown>>)
       ELSE IF "Sales_Rep" \notin dash.filtered.frame.cols
       THEN /\ selected_member = NaN
            /\ section = NoSection
            /\ dash' = FailedDash(KeyError("Sales_Rep"))
       ELSE LET chosen == IF dash.view \in TeamMembers THEN <<dash.view>> ELSE selected_member
                Is(row) == chosen # NaN /\ row["Sales_Rep"] = chosen
                member_data == BoolIndex(dash.filtered,
                                         SelectSeq(dash.filtered.frame.rows, Is))
                assigned == Object(MemberAssigned(member_data.frame), member_data.root)
                store == IF assigned.root = "df_streamlit" THEN assigned ELSE dash.store
            IN  /\ section = NoSection
                /\ dash.view = "Team Member" =>
                      selected_member \in MemberOptions(dash.filtered.frame)
                /\ dash.view \in TeamMembers => selected_member = NaN
                /\ dash' =
                      IF IsEmpty(member_data.frame)
                      THEN Rendered(dash.store, member_data, <<>>)
                      ELSE IF "Date" \in member_data.frame.cols
                              /\ "Revenue" \notin member_data.frame.cols
                      THEN [pc |-> "failed", error |-> KeyError("Revenue"), store |-> store]
                      ELSE Rendered(store, assigned, <<MemberMetrics(member_data.frame)>>)
    /\ UNCHANGED <<file, df, thr, call>>

\* The run ends; the next interaction runs the script again.
DashDone ==
    /\ dash.pc \in {"rendered", "failed"}
    /\ dash' = [pc |-> "idle"]
    /\ UNCHANGED <<file, df, thr, call>>

\* ------------------------------------------------------------------ filter_dataset, called alone

Idle == [op |-> "idle"]

IdleDash == [pc |-> "idle"]

\* The file system at start: no file at DATASET_PATH, or one of the files.
FilesOf(csvs) ==
    {[exists |-> FALSE, csv |-> EmptyFrame]} \cup {[exists |-> TRUE, csv |-> c] : c \in csvs}

InitFilter ==
    /\ file \in FilesOf(FilterCsvFiles)
    /\ df = LoadGlobal(file.exists, file.csv)
    /\ thr = [t \in Threads |-> IdleThread]
    /\ dash = IdleDash
    /\ call = Idle

\* filter_dataset(df, params), and filter_dataset again on what it returned
\* (an exception of the first call reaches the caller before the second).
FilterCall ==
    /\ call = Idle
    /\ \E params \in FilterSpecs :
         LET out == filter_dataset(df, params)
         IN  call' = [op |-> "filter_dataset", params |-> params, out |-> out,
                      again |-> IF IsFrame(out) THEN filter_dataset(out, params) ELSE out]
    /\ UNCHANGED <<file, df, thr, dash>>

FilterReturn ==
    /\ call # Idle
    /\ call' = Idle
    /\ UNCHANGED <<file, df, thr, dash>>

vars == <<file, df, thr, dash, call>>

NextFilter == FilterCall \/ FilterReturn

SpecFilter == InitFilter /\ [][NextFilter]_vars

\* ------------------------------------------------------------------ the endpoints, one request at a time

InitApi ==
    /\ file \in FilesOf(ApiCsvFiles)
    /\ df = LoadGlobal(file.exists, file.csv)
    /\ thr = [t \in Threads |-> IdleThread]
    /\ dash = IdleDash
    /\ call = Idle

NextApi ==
    \/ \E endpoint \in Endpoints, params \in ApiSpecs : Receive("t1", endpoint, params)
    \/ Handle("t1")
    \/ Send("t1")

SpecApi == InitApi /\ [][NextApi]_vars

\* ------------------------------------------------------------------ the program

\* The files of the runs in which requests and the dashboard interleave:
\* records of one representative that have a session duration.
ProgramCsvRows ==
    {row \in ApiCsvRows :
        row["Sales_Rep"] = <<"Amber Lame">> /\ row["Session_Duration"] # NaN}

ProgramCsvFiles ==
    {CsvFile(ApiCsvCols, rows) : rows \in SeqsUpTo(ProgramCsvRows, MaxNarrowRows)}

\* The query strings of those runs.
ProgramSpecs == {NoParams, [country |-> "X"]}

Init ==
    /\ file \in FilesOf(ProgramCsvFiles)
    /\ df = LoadGlobal(file.exists, file.csv)
    /\ thr = [t \in Threads |-> IdleThread]
    /\ dash = IdleDash
    /\ call = Idle

\* Flask serves each request on a thread of its own while the main thread
\* runs the Streamlit script (dashboard.py:516-521).
Next ==
    \/ \E t \in Threads, endpoint \in Endpoints, params \in ProgramSpecs :
          Receive(t, endpoint, params)
    \/ \E t \in Threads : Handle(t)
    \/ \E t \in Threads : Send(t)
    \/ \E view_option \in {"SALES TEAM", "Team Member", "Amber Lame"},
          start_date \in DashDays, end_date \in DashDays,
          selected_country \in SUBSET {"X", "Y"} :
          DashStart(view_option, start_date, end_date, selected_country)
    \/ \E selected_member \in {NaN, <<"Amber Lame">>, <<"Treach Mpedi">>},
          section \in Sections \cup {NoSection} :
          DashRender(selected_member, section)
    \/ DashDone

Spec == Init /\ [][Next]_vars

\* ------------------------------------------------------------------ the views, one at a time

\* A record of a representative that has no sales target.
NoTargetRow ==
    [Timestamp |-> <<0, 1>>, Country |-> <<"Y">>, Region |-> <<"R2">>,
     City |-> <<"C2">>, Product_Name |-> <<"Bot">>, Request_Category |-> <<"Job">>,
     Job_Title |-> <<"Analyst">>, Sales_Rep |-> <<"Amber Lame">>,
     Transaction_Amount |-> <<40>>, Revenue |-> <<60>>,
     Service_Type |-> <<"Support">>, Likes |-> <<2>>, Page_Accessed |-> <<"/jobs">>,
     IP_Address |-> <<"ip2">>, Conversion_Status |-> <<"Converted">>,
     Sales_Target |-> NaN, Session_Duration |-> NaN]

\* The rows of the files the views load: the records that name a
\* representative and have a transaction amount, and the one without target.
DashCsvRows ==
    {row \in ApiCsvRows : row["Sales_Rep"] # NaN /\ row["Transaction_Amount"] # NaN}
    \cup {NoTargetRow}

\* A long file: eleven countries from last to first in the alphabet, six job
\* titles and six events in turn, one record each.
LongCountries == <<"Z9", "Z8", "Z7", "Z6", "Z5", "Z4", "Z3", "Z2", "Z1", "Y", "X">>

LongTitles == <<"Engineer", "Analyst", "Manager", "Clerk", "Driver", "Intern">>

LongEvents == <<"Demo", "Job", "Event", "Promo", "Assist", "Quote">>

LongRow(i) ==
    [Timestamp |-> <<0, 0>>, Country |-> <<LongCountries[i]>>, Region |-> <<"R1">>,
     City |-> <<"C1">>, Product_Name |-> <<"Bot">>,
     Request_Category |-> <<LongEvents[((i - 1) % Len(LongEvents)) + 1]>>,
     Job_Title |-> <<LongTitles[((i - 1) % Len(LongTitles)) + 1]>>,
     Sales_Rep |-> <<"Amber Lame">>,
     Transaction_Amount |-> <<10>>, Revenue |-> <<20>>,
     Service_Type |-> <<"Demo">>, Likes |-> <<1>>, Page_Accessed |-> <<"/home">>,
     IP_Address |-> <<"ip1">>, Conversion_Status |-> <<"Converted">>,
     Sales_Target |-> <<200>>, Session_Duration |-> NaN]

LongCsvFile == CsvFile(ApiCsvCols, [i \in 1 .. Len(LongCountries) |-> LongRow(i)])

\* The columns a file of the views may lack, one at a time.
DashDrops == {{"Sales_Target"}, {"Conversion_Status"}, {"Product_Name"}}

DashCsvFiles ==
    {CsvFile(ApiCsvCols, rows) : rows \in SeqsUpTo(DashCsvRows, MaxRows)}
    \cup {CsvFile(ApiCsvCols \ drop, rows) :
            drop \in DashDrops, rows \in SeqsUpTo(DashCsvRows, MaxNarrowRows)}
    \cup {LongCsvFile}

\* The endpoints with a view of the same name in the dashboard, and the
\* query strings sent to them.
DashEndpoints == {"generate_insights", "top_products"}

DashSpecs == {NoParams, [country |-> "Nowhere"]}

InitDash ==
    /\ file \in FilesOf(DashCsvFiles)
    /\ df = LoadGlobal(file.exists, file.csv)
    /\ thr = [t \in Threads |-> IdleThread]
    /\ dash = IdleDash
    /\ call = Idle

\* One request or one run of the script at a time.
NextDash ==
    \/ /\ dash.pc = "idle"
       /\ \E endpoint \in DashEndpoints, params \in DashSpecs :
             Receive("t1", endpoint, params)
    \/ Handle("t1")
    \/ Send("t1")
    \/ /\ thr["t1"].pc = "idle"
       /\ \E view_option \in {"SALES TEAM", "Team Member", "Amber Lame"},
             start_date \in DashDays, end_date \in DashDays,
             selected_country \in SUBSET {"X", "Y"} :
             DashStart(view_option, start_date, end_date, selected_country)
    \/ \E selected_member \in {NaN, <<"Amber Lame">>, <<"Treach Mpedi">>},
          section \in Sections \cup {NoSection} :
          DashRender(selected_member, section)
    \/ DashDone

SpecDash == InitDash /\ [][NextDash]_vars

\* ------------------------------------------------------------------ claims on filter_dataset

Called == call.op = "filter_dataset"

\* What the specification asks of a kept record, written from its words: every
\* key with a text, whose column the store has, holds of the record.
AfterStart(row, params) ==
    Truthy(params, "start_date") =>
        to_datetime(params["start_date"])[1] <= row["Timestamp"][1]

BeforeEnd(row, params) ==
    Truthy(params, "end_date") =>
        row["Timestamp"][1] <= to_datetime(params["end_date"])[1]

EqualsText(row, cols, params, key) ==
    (Truthy(params, key) /\ ColumnOf(key) \in cols) =>
        (row[ColumnOf(key)] # NaN /\ row[ColumnOf(key)][1] = params[key])

Wanted(row, cols, params) ==
    /\ AfterStart(row, params)
    /\ BeforeEnd(row, params)
    /\ \A key \in CatKeys : EqualsText(row, cols, params, key)

WantedRows(dataframe, params) ==
    LET Test(row) == Wanted(row, dataframe.cols, params)
    IN  SelectSeq(dataframe.rows, Test)

\* C1: on a non-empty store filter_dataset returns exactly the records that
\* satisfy the predicate of every key with a text, in their order in the store.
C1_FilterIsConjunction ==
    (Called /\ ~IsEmpty(df)) =>
        (IsFrame(call.out) /\ call.out.cols = df.cols
                           /\ call.out.rows = WantedRows(df, call.params))

\* The same, for the requests whose every key with a text has its column in
\* the store.
ColumnsPresent(dataframe, params) ==
    \A key \in CatKeys : Truthy(params, key) => ColumnOf(key) \in dataframe.cols

FilterIsConjunctionWithColumns ==
    (Called /\ ~IsEmpty(df) /\ ColumnsPresent(df, call.params)) =>
        (IsFrame(call.out) /\ call.out.cols = df.cols
                           /\ call.out.rows = WantedRows(df, call.params))

\* C2: the date bounds are inclusive and compared with the Timestamp: with
\* only date keys given, the records kept are exactly those with
\* start_date <= Timestamp <= end_date; and no record outside the bounds is
\* ever returned.
InBounds(row, params) == AfterStart(row, params) /\ BeforeEnd(row, params)

OnlyDates(params) == \A key \in CatKeys : ~Truthy(params, key)

RowsInBounds(dataframe, params) ==
    LET Test(row) == InBounds(row, params)
    IN  SelectSeq(dataframe.rows, Test)

C2_DateBoundsInclusive ==
    (Called /\ ~IsEmpty(df)) =>
        /\ OnlyDates(call.params) =>
              (IsFrame(call.out) /\ call.out.rows = RowsInBounds(df, call.params))
        /\ IsFrame(call.out) =>
              \A i \in 1 .. Len(call.out.rows) : InBounds(call.out.rows[i], call.params)

\* A call that keeps a record at its start bound and one at its end bound,
\* and drops another.
C2_Witness ==
    /\ Called
    /\ Truthy(call.params, "start_date") /\ Truthy(call.params, "end_date")
    /\ IsFrame(call.out)
    /\ Len(call.out.rows) < Len(df.rows)
    /\ to_datetime(call.params["start_date"])[1] < to_datetime(call.params["end_date"])[1]
    /\ \E i, j \in 1 .. Len(call.out.rows) :
          /\ call.out.rows[i]["Timestamp"] = to_datetime(call.params["start_date"])
          /\ call.out.rows[j]["Timestamp"] = to_datetime(call.params["end_date"])

\* C4: a key with a text whose column the store lacks is ignored: the call
\* returns what it returns without that key.
Without(params, key) == [k \in DOMAIN params \ {key} |-> params[k]]

C4_AbsentColumnIgnored ==
    (Called /\ ~IsEmpty(df)) =>
        \A key \in CatKeys :
            (Truthy(call.params, key) /\ ColumnOf(key) \notin df.cols) =>
                (IsFrame(call.out)
                 /\ call.out = filter_dataset(df, Without(call.params, key)))

\* C7: with every key absent or empty the store is returned as it is, and an
\* empty store is returned as it is whatever the keys.
NoText(params) == \A k \in 1 .. Len(FilterKeys) : ~Truthy(params, FilterKeys[k])

C7_Identity ==
    Called =>
        /\ NoText(call.params) => call.out = df
        /\ IsEmpty(df) => call.out = df

\* A call on a non-empty store with keys given, all of them empty.
C7_Witness ==
    /\ Called
    /\ ~IsEmpty(df)
    /\ DOMAIN call.params # {}
    /\ NoText(call.params)
    /\ call.out = df

\* C8: filter_dataset applied to its own result, with the same keys, returns
\* that result.
C8_Idempotent == Called => call.again = call.out

\* A call that returned some of the records of the store, and not all.
C8_Witness ==
    /\ Called
    /\ IsFrame(call.out)
    /\ call.out.rows # <<>>
    /\ Len(call.out.rows) < Len(df.rows)
    /\ call.again = call.out

\* ------------------------------------------------------------------ claims on the endpoints

\* The request thread t has answered, and the subset it answered from.
Answered(t) == thr[t].pc = "done"

Subset(t) == thr[t].work.frame

HasSubset(t) == Answered(t) /\ IsObject(thr[t].work)

IsNoData(resp) ==
    /\ resp.status = 200
    /\ ~resp.list
    /\ DOMAIN resp.body = {"message", "filters", "data_count"}
    /\ resp.body.data_count = 0

\* C3: an endpoint whose filtered subset is empty answers with the
\* {message, filters, data_count: 0} shape, and with no error.
C3_EmptySubsetIsNoData ==
    \A t \in Threads :
        (HasSubset(t) /\ IsEmpty(Subset(t))) =>
            (IsNoData(thr[t].resp) /\ thr[t].resp.body.filters = thr[t].params)

\* The columns an endpoint aggregates.
Needs(endpoint) ==
    CASE endpoint = "unique_visitors"    -> {"IP_Address"}
      [] endpoint = "service_requests"   -> {"Service_Type"}
      [] endpoint = "sales_metrics"      -> {"Transaction_Amount"}
      [] endpoint = "top_products"       -> {"Product_Name", "Likes"}
      [] endpoint = "customer_locations" -> {"Country", "Region", "City", "Product_Name"}
      [] endpoint = "page_access"        -> {"Page_Accessed"}
      [] endpoint = "generate_insights"  ->
            {"Service_Type", "Transaction_Amount", "Conversion_Status"}
      [] endpoint = "sales_by_rep"       -> {"Sales_Rep", "Transaction_Amount"}
      [] OTHER                           -> {}

\* C5: on a non-empty subset that lacks a column an endpoint aggregates, the
\* endpoint answers (with 0, no rows or "N/A" there) and raises no error.
\* (On a subset that has the Service_Type column and no value in it,
\* generate_insights is the matter of another claim.)
C5_AbsentFieldNoError ==
    \A t \in Threads :
        (/\ HasSubset(t)
         /\ ~IsEmpty(Subset(t))
         /\ Needs(thr[t].endpoint) \ Subset(t).cols # {}
         /\ (thr[t].endpoint = "generate_insights" /\ "Service_Type" \in Subset(t).cols)
               => \E i \in 1 .. Len(Subset(t).rows) : Subset(t).rows[i]["Service_Type"] # NaN) =>
            thr[t].resp.status = 200

\* The sum of the Total_Sales of the rows of a sales_by_rep answer.
RECURSIVE TotalOfRows(_)
TotalOfRows(rows) ==
    IF rows = <<>> THEN 0 ELSE Head(rows)["Total_Sales"] + TotalOfRows(Tail(rows))

\* C9: the per-representative sums of sales_by_rep add up to the sum of
\* Transaction_Amount over the whole filtered subset.
C9_GroupSumsPartition ==
    \A t \in Threads :
        (/\ HasSubset(t)
         /\ thr[t].endpoint = "sales_by_rep"
         /\ thr[t].resp.status = 200
         /\ thr[t].resp.list) =>
            TotalOfRows(thr[t].resp.body)
                = SumCells(Column(Subset(t).rows, "Transaction_Amount"))

\* The same over the records that name a representative.
GroupSumsPartitionNamed ==
    \A t \in Threads :
        (/\ HasSubset(t)
         /\ thr[t].endpoint = "sales_by_rep"
         /\ thr[t].resp.status = 200
         /\ thr[t].resp.list) =>
            LET Named(row) == row["Sales_Rep"] # NaN
            IN  TotalOfRows(thr[t].resp.body)
                   = SumCells(Column(SelectSeq(Subset(t).rows, Named), "Transaction_Amount"))

\* The profit of a record in the words of the specification: revenue minus
\* transaction amount when the record has both, else 0.
RecordProfit(row) ==
    IF /\ "Revenue" \in DOMAIN row /\ "Transaction_Amount" \in DOMAIN row
       /\ row["Revenue"] # NaN /\ row["Transaction_Amount"] # NaN
    THEN row["Revenue"][1] - row["Transaction_Amount"][1]
    ELSE 0

RecordAmount(row) ==
    IF "Transaction_Amount" \in DOMAIN row /\ row["Transaction_Amount"] # NaN
    THEN row["Transaction_Amount"][1]
    ELSE 0

RECURSIVE SumPositive(_)
SumPositive(ns) ==
    IF ns = <<>> THEN 0
    ELSE (IF Head(ns) > 0 THEN Head(ns) ELSE 0) + SumPositive(Tail(ns))

RECURSIVE SumNegative(_)
SumNegative(ns) ==
    IF ns = <<>> THEN 0
    ELSE (IF Head(ns) < 0 THEN Head(ns) ELSE 0) + SumNegative(Tail(ns))

Profits(rows) == [i \in 1 .. Len(rows) |-> RecordProfit(rows[i])]

Amounts(rows) == [i \in 1 .. Len(rows) |-> RecordAmount(rows[i])]

\* The records of Scenario C: amounts 100, -20, 50 with revenues 150, -10, 70.
IsScenarioC(rows) ==
    /\ Len(rows) = 3
    /\ Column(rows, "Transaction_Amount") = << <<100>>, <<-20>>, <<50>> >>
    /\ Column(rows, "Revenue") = << <<150>>, <<-10>>, <<70>> >>

MemberViewShown ==
    /\ dash.pc = "rendered"
    /\ dash.view # "SALES TEAM"
    /\ dash.metrics # <<>>

\* C6: at every moment of every interleaving of requests and dashboard runs
\* the record store holds what load_data built: the global DataFrame of the
\* endpoints is unchanged, the DataFrame of the dashboard run is unchanged,
\* and the subset of a request or of a run is an object of its own.
C6_StoreNeverMutated ==
    /\ df = LoadGlobal(file.exists, file.csv)
    /\ "store" \in DOMAIN dash => dash.store.frame = load_data(file.csv)
    /\ \A t \in Threads :
          (thr[t].pc # "idle" /\ IsObject(thr[t].work)) => thr[t].work.root = "own"
    /\ dash.pc = "rendered" => dash.member.root = "own"

\* A request has assigned the Date column on its subset of every record, a
\* second request is between its filter and its answer, and the dashboard
\* has assigned the chart columns on a member subset holding every record
\* of the store, one of them with a date that is not day 0.
C6_Witness ==
    /\ thr["t1"].pc = "done"
    /\ thr["t1"].endpoint = "trends"
    /\ thr["t1"].params = NoParams
    /\ IsObject(thr["t1"].work)
    /\ Len(thr["t1"].work.frame.rows) = Len(df.rows)
    /\ df.rows # <<>>
    /\ thr["t2"].pc = "filtered"
    /\ MemberViewShown
    /\ Len(dash.member.frame.rows) = Len(dash.store.frame.rows)
    /\ \E i \in 1 .. Len(dash.store.frame.rows) :
          dash.member.frame.rows[i]["Date"] # dash.store.frame.rows[i]["Date"]


\* ------------------------------------------------------------------ claims on the insights

\* generate_insights has answered thread t with its bundle of insights.
Insights(t) ==
    /\ HasSubset(t)
    /\ thr[t].endpoint = "generate_insights"
    /\ thr[t].resp.status = 200
    /\ "conversion_rate" \in DOMAIN thr[t].resp.body

\* The number of records of a subset whose conversion status is "Converted".
Converted(dataframe) ==
    IF "Conversion_Status" \in dataframe.cols
    THEN Cardinality({i \in 1 .. Len(dataframe.rows) :
                        dataframe.rows[i]["Conversion_Status"] = <<"Converted">>})
    ELSE 0

StrongLabel == "Sales performance is strong"

WeakLabel == "Sales performance needs improvement"

\* C12: the message of generate_insights is the positive label exactly when
\* the conversion rate of the subset, 100 * converted / size, is greater than
\* 50, and the improvement-needed label otherwise, at a rate of exactly 50
\* too; three records, all "Converted", give the rate 100 and the positive
\* label.
C12_JudgmentThreshold ==
    \A t \in Threads :
        Insights(t) =>
            LET size == Len(Subset(t).rows)
                body == thr[t].resp.body
            IN  /\ body.message \in {StrongLabel, WeakLabel}
                /\ body.message = StrongLabel <=> 100 * Converted(Subset(t)) > 50 * size
                /\ (size = 3 /\ Converted(Subset(t)) = 3) =>
                      /\ body.conversion_rate.num = 100 * body.conversion_rate.den
                      /\ body.message = StrongLabel

\* generate_insights has answered on a subset of which exactly half is
\* "Converted": the rate is 50 and the label the improvement-needed one.
C12_Witness ==
    /\ Insights("t1")
    /\ Len(Subset("t1").rows) = 2
    /\ Converted(Subset("t1")) = 1
    /\ thr["t1"].resp.body.conversion_rate = Frac(100, 2)
    /\ thr["t1"].resp.body.message = WeakLabel

\* Scenario B has been answered: three records, all "Converted".
ScenarioBAnswered ==
    /\ Insights("t1")
    /\ Len(Subset("t1").rows) = 3
    /\ Converted(Subset("t1")) = 3
    /\ thr["t1"].resp.body.message = StrongLabel

\* How often a value occurs in a column, and where it occurs first.
Occurrences(cells, v) == Cardinality({i \in 1 .. Len(cells) : cells[i] = <<v>>})

FirstAt(cells, v) == CHOOSE i \in 1 .. Len(cells) :
                        cells[i] = <<v>> /\ \A j \in 1 .. (i - 1) : cells[j] # <<v>>

ValuesOf(cells) == {cells[i][1] : i \in {j \in 1 .. Len(cells) : cells[j] # NaN}}

\* The most frequent value of a column; of several equally frequent ones the
\* one met first.
IsDominant(cells, v) ==
    /\ v \in ValuesOf(cells)
    /\ \A w \in ValuesOf(cells) \ {v} :
          \/ Occurrences(cells, v) > Occurrences(cells, w)
          \/ /\ Occurrences(cells, v) = Occurrences(cells, w)
             /\ FirstAt(cells, v) < FirstAt(cells, w)

\* C15: on a non-empty subset generate_insights answers without an error, and
\* its top_service_request is the most frequent Service_Type of the subset,
\* of equally frequent ones the one met first; it is "N/A" when the subset
\* has no Service_Type column or no value in it.
C15_DominantService ==
    \A t \in Threads :
        (/\ HasSubset(t)
         /\ thr[t].endpoint = "generate_insights"
         /\ ~IsEmpty(Subset(t))) =>
            /\ thr[t].resp.status = 200
            /\ LET top == thr[t].resp.body.top_service_request
               IN  IF "Service_Type" \in Subset(t).cols
                      /\ ValuesOf(Column(Subset(t).rows, "Service_Type")) # {}
                   THEN IsDominant(Column(Subset(t).rows, "Service_Type"), top)
                   ELSE top = "N/A"

\* The same on the subsets that have some Service_Type value or no such column.
DominantServiceWhereCounted ==
    \A t \in Threads :
        (/\ HasSubset(t)
         /\ thr[t].endpoint = "generate_insights"
         /\ ~IsEmpty(Subset(t))
         /\ "Service_Type" \in Subset(t).cols
               => ValuesOf(Column(Subset(t).rows, "Service_Type")) # {}) =>
            /\ thr[t].resp.status = 200
            /\ LET top == thr[t].resp.body.top_service_request
               IN  IF "Service_Type" \in Subset(t).cols
                   THEN IsDominant(Column(Subset(t).rows, "Service_Type"), top)
                   ELSE top = "N/A"


\* ------------------------------------------------------------------ claims on the views

\* The SALES TEAM view has shown a section computed from filtered_df.
SectionShown(section) ==
    /\ dash.pc = "rendered"
    /\ dash.view = "SALES TEAM"
    /\ dash.metrics # <<>>
    /\ dash.metrics[1].section = section

\* A rate is 100 * converted / size of a subset with records, and 0 of the
\* subset without; it lies between 0 and 100.
IsRateOf(rate, dataframe) ==
    /\ rate.den > 0
    /\ 0 <= rate.num /\ rate.num <= 100 * rate.den
    /\ IF Len(dataframe.rows) = 0 THEN rate.num = 0
       ELSE rate.num * Len(dataframe.rows) = 100 * Converted(dataframe) * rate.den

\* C11: the conversion rate that generate_insights reports and the one the
\* Overview of the dashboard shows are 100 * (records whose status is
\* "Converted") / (size of the subset), between 0 and 100, and 0 for the
\* subset without records.
C11_ConversionRate ==
    /\ \A t \in Threads :
          Insights(t) => IsRateOf(thr[t].resp.body.conversion_rate, Subset(t))
    /\ SectionShown("Overview") =>
          IsRateOf(dash.metrics[1].conversion_rate, dash.filtered.frame)

\* The Overview has shown the rate of a subset of which one record of three
\* is "Converted".
C11_Witness ==
    /\ SectionShown("Overview")
    /\ Len(dash.filtered.frame.rows) = 3
    /\ Converted(dash.filtered.frame) = 1
    /\ dash.metrics[1].conversion_rate = Frac(100, 3)

\* The Overview has shown the rate 0 of a subset without records, taken from
\* a store with records.
EmptyRateShown ==
    /\ SectionShown("Overview")
    /\ dash.store.frame.rows # <<>>
    /\ dash.filtered.frame.rows = <<>>
    /\ dash.metrics[1].conversion_rate.num = 0

\* generate_insights has reported a rate that is neither 0 nor 100.
RateReported ==
    /\ Insights("t1")
    /\ thr["t1"].resp.body.conversion_rate.num > 0
    /\ thr["t1"].resp.body.conversion_rate.num < 100 * thr["t1"].resp.body.conversion_rate.den


\* The Sales_Target values of a subset that are not missing, in its order.
Targets(dataframe) ==
    IF "Sales_Target" \in dataframe.cols
    THEN LET Has(c) == c # NaN
         IN  SelectSeq(Column(dataframe.rows, "Sales_Target"), Has)
    ELSE <<>>

RevenueOf(dataframe) ==
    IF "Revenue" \in dataframe.cols THEN SumCells(Column(dataframe.rows, "Revenue")) ELSE 0

\* The achievement shown is revenue / target * 100, and 0 for the target 0.
IsAchievement(pct, revenue, target) ==
    /\ pct # NaN
    /\ IF target = 0 THEN pct[1].num = 0
       ELSE pct[1].num * target = 100 * revenue * pct[1].den

\* C14: in the Team Member view the sales target shown is the first
\* Sales_Target of the representative's records that is not missing, and the
\* achievement is revenue / target * 100; the achievement is 0 when that
\* target is 0 and when no record of the representative has a target.
C14_SalesTargetFirstNonNull ==
    MemberViewShown =>
        LET shown == dash.metrics[1]
            targets == Targets(dash.member.frame)
        IN  IF targets # <<>>
            THEN /\ shown.sales_target = targets[1]
                 /\ IsAchievement(shown.achievement_pct, RevenueOf(dash.member.frame),
                                  targets[1][1])
            ELSE /\ shown.achievement_pct # NaN
                 /\ shown.achievement_pct[1].num = 0

\* The same for the representatives whose first record has a target, or who
\* have none in any record.
SalesTargetOfFirstRecord ==
    (/\ MemberViewShown
     /\ "Sales_Target" \in dash.member.frame.cols /\ Targets(dash.member.frame) # <<>>
           => dash.member.frame.rows[1]["Sales_Target"] # NaN) =>
        LET shown == dash.metrics[1]
            targets == Targets(dash.member.frame)
        IN  IF targets # <<>>
            THEN /\ shown.sales_target = targets[1]
                 /\ IsAchievement(shown.achievement_pct, RevenueOf(dash.member.frame),
                                  targets[1][1])
            ELSE /\ shown.achievement_pct # NaN
                 /\ shown.achievement_pct[1].num = 0


\* A ranking, as rows [key, val], has at most n rows and descends by val.
Descends(ranking, n) ==
    /\ Len(ranking) <= n
    /\ \A i, j \in 1 .. Len(ranking) : i < j => ranking[i].val >= ranking[j].val

\* Rows of equal val stand in the order their keys are first met in a column.
TiesAsFirstMet(ranking, cells) ==
    \A i, j \in 1 .. Len(ranking) :
        (i < j /\ ranking[i].val = ranking[j].val) =>
            FirstAt(cells, ranking[i].key) < FirstAt(cells, ranking[j].key)

\* Rows of equal val stand in the order of their keys.
TiesByKey(ranking) ==
    \A i, j \in 1 .. Len(ranking) :
        (i < j /\ ranking[i].val = ranking[j].val) =>
            Rank(ranking[i].key) < Rank(ranking[j].key)

\* The rows of an answer of top_products as rows [key, val].
AsRanking(rows, measure) ==
    [j \in 1 .. Len(rows) |-> [key |-> rows[j]["Product_Name"], val |-> rows[j][measure]]]

\* top_products has answered thread t with its two rankings.
ProductsRanked(t) ==
    /\ HasSubset(t)
    /\ thr[t].endpoint = "top_products"
    /\ thr[t].resp.status = 200
    /\ "top_liked_products" \in DOMAIN thr[t].resp.body

\* C13: every ranking (the products by sales count and by likes of
\* top_products, the top 5 job titles, the top 5 events and the top 10
\* countries of the dashboard) has at most its n rows, descends by its
\* measure, and has the groups of equal measure in the order in which they
\* are first met in the subset.
C13_TopNRanking ==
    /\ \A t \in Threads :
          ProductsRanked(t) =>
             LET sold == AsRanking(thr[t].resp.body.top_sold_products, "Sales_Count")
                 liked == AsRanking(thr[t].resp.body.top_liked_products, "Likes")
                 products == Column(Subset(t).rows, "Product_Name")
             IN  /\ Descends(sold, Len(sold)) /\ TiesAsFirstMet(sold, products)
                 /\ Descends(liked, Len(liked)) /\ TiesAsFirstMet(liked, products)
    /\ SectionShown("Jobs Analysis") =>
          LET shown == dash.metrics[1]
              rows == dash.filtered.frame.rows
          IN  /\ Descends(shown.job_counts, TopTitles)
              /\ TiesAsFirstMet(shown.job_counts, Column(rows, "Job_Title"))
              /\ Descends(shown.country_jobs, TopCountries)
              /\ TiesAsFirstMet(shown.country_jobs, Column(rows, "Country"))
    /\ SectionShown("Event Analytics") =>
          LET shown == dash.metrics[1]
              rows == dash.filtered.frame.rows
          IN  /\ Descends(shown.event_counts, TopTitles)
              /\ TiesAsFirstMet(shown.event_counts, Column(rows, "Request_Category"))

\* The same with the rankings that are grouped before they are sorted (the
\* products by likes, the countries) having their equal groups in the order
\* of the group names.
RankingTiesAsComputed ==
    /\ \A t \in Threads :
          ProductsRanked(t) =>
             LET sold == AsRanking(thr[t].resp.body.top_sold_products, "Sales_Count")
                 liked == AsRanking(thr[t].resp.body.top_liked_products, "Likes")
                 products == Column(Subset(t).rows, "Product_Name")
             IN  /\ Descends(sold, Len(sold)) /\ TiesAsFirstMet(sold, products)
                 /\ Descends(liked, Len(liked)) /\ TiesByKey(liked)
    /\ SectionShown("Jobs Analysis") =>
          LET shown == dash.metrics[1]
              rows == dash.filtered.frame.rows
          IN  /\ Descends(shown.job_counts, TopTitles)
              /\ TiesAsFirstMet(shown.job_counts, Column(rows, "Job_Title"))
              /\ Descends(shown.country_jobs, TopCountries)
              /\ TiesByKey(shown.country_jobs)
    /\ SectionShown("Event Analytics") =>
          LET shown == dash.metrics[1]
              rows == dash.filtered.frame.rows
          IN  /\ Descends(shown.event_counts, TopTitles)
              /\ TiesAsFirstMet(shown.event_counts, Column(rows, "Request_Category"))

\* A ranking of the dashboard has left groups out: more than five job titles,
\* more than ten countries.
RankingCut ==
    /\ SectionShown("Jobs Analysis")
    /\ Len(dash.metrics[1].job_counts) = TopTitles
    /\ Cardinality(ValuesOf(Column(dash.filtered.frame.rows, "Job_Title"))) > TopTitles
    /\ Len(dash.metrics[1].country_jobs) = TopCountries
    /\ Cardinality(ValuesOf(Column(dash.filtered.frame.rows, "Country"))) > TopCountries

============================================================================
